---- MODULE Spec2Model ----
(***************************************************************************)
(* A model of the term rewriting system of src/types/trs.rs: the ordered   *)
(* rule list with its determinism flag and mutators, and the rewrite       *)
(* strategies (Normal, Eager, All, String).                                *)
(*                                                                         *)
(* Indices are the 0-based indices of the Rust code; sequences are TLA+    *)
(* sequences, so the rule at Rust index i is rules[i + 1].                 *)
(***************************************************************************)
EXTENDS Integers, Sequences, FiniteSets, TLC

VARIABLES rules, is_deterministic, op, arg, res, pre, term, strategy, out, sig

vars == <<rules, is_deterministic, op, arg, res, pre, term, strategy, out, sig>>

(***************************************************************************)
(* Bounds.                                                                 *)
(***************************************************************************)
\* largest index handed to an index-taking mutator
MaxIdx == 3
\* longest rule list handed to pushes / inserts_idx / new
MaxBatch == 2
\* largest number of nodes of an input term of rewrite
MaxSize == 5
\* longest rule list of a TRS handed to rewrite
MaxRWRules == 2
\* longest flattened pattern handed to the string matcher
MaxPattern == 3
\* longest flattened input string handed to the string matcher
MaxString == 3
\* threads sharing one signature
MaxThreads == 2
\* most records (operators and variables together) a signature is given
MaxRecords == 2
\* largest t_max and d_max handed to PString::compute
MaxEdits == 2

\* let v = ...; In: the value is computed once and named in what follows
Let(v, In(_)) == In(v)

(***************************************************************************)
(* Signature: operator records (name, arity), addressed by position.       *)
(* Variables are addressed by their id.                                    *)
(***************************************************************************)
Sig ==
  << [name |-> "A", arity |-> 0], [name |-> "B", arity |-> 0],
     [name |-> "C", arity |-> 0], [name |-> "D", arity |-> 0],
     [name |-> "E", arity |-> 0], [name |-> "F", arity |-> 1],
     [name |-> "G", arity |-> 0], [name |-> "H", arity |-> 0],
     [name |-> ".", arity |-> 2], [name |-> "J", arity |-> 2],
     [name |-> "K", arity |-> 2] >>

OpArity(o) == Sig[o].arity
OpName(o) == Sig[o].name

\* the operator handle of the first operator with this name
OpNamed(n) == CHOOSE o \in DOMAIN Sig : Sig[o].name = n /\ \A p \in DOMAIN Sig : Sig[p].name = n => o <= p

(***************************************************************************)
(* Terms: Term::Variable(v) and Term::Application { op, args }.            *)
(***************************************************************************)
Var(v) == [var |-> TRUE, id |-> v, args |-> <<>>]
App(o, as) == [var |-> FALSE, id |-> o, args |-> as]

Const(n) == App(OpNamed(n), <<>>)
tA == Const("A")
tB == Const("B")
tC == Const("C")
tD == Const("D")
tE == Const("E")
tG == Const("G")
tH == Const("H")
tF(t) == App(OpNamed("F"), <<t>>)
tDot(a, b) == App(OpNamed("."), <<a, b>>)
tJ(a, b) == App(OpNamed("J"), <<a, b>>)
tK(a, b) == App(OpNamed("K"), <<a, b>>)
vx == Var(0)
vy == Var(1)

RECURSIVE Substitute(_, _)
Substitute(t, sub) ==
  IF t.var
    THEN IF t.id \in DOMAIN sub THEN sub[t.id] ELSE t
    ELSE App(t.id, [i \in DOMAIN t.args |-> Substitute(t.args[i], sub)])

NoMatch == [ok |-> FALSE, sub |-> <<>>]
EmptyMatch == [ok |-> TRUE, sub |-> <<>>]

RECURSIVE PMatchGiven(_, _, _)
RECURSIVE PMatchArgs(_, _, _, _)
PMatchGiven(p, t, m) ==
  IF ~m.ok THEN m
  ELSE IF p.var
    THEN IF p.id \in DOMAIN m.sub
           THEN IF m.sub[p.id] = t THEN m ELSE NoMatch
           ELSE [ok |-> TRUE, sub |-> m.sub @@ (p.id :> t)]
  ELSE IF t.var THEN NoMatch
  ELSE IF p.id # t.id \/ Len(p.args) # Len(t.args) THEN NoMatch
  ELSE PMatchArgs(p.args, t.args, 1, m)

PMatchArgs(ps, ts, i, m) ==
  IF i > Len(ps) \/ ~m.ok THEN m
  ELSE PMatchArgs(ps, ts, i + 1, PMatchGiven(ps[i], ts[i], m))

\* Term::pmatch(&[(p, t)]): only the variables of p may bind
PMatch(p, t) == PMatchGiven(p, t, EmptyMatch)

\* Term::alpha(&[(t1, t2)]): an injective variable-to-variable renaming
Alpha(t1, t2) ==
  Let(PMatch(t1, t2), LAMBDA m :
    IF m.ok /\ (\A v \in DOMAIN m.sub : m.sub[v].var)
            /\ (\A v, w \in DOMAIN m.sub : m.sub[v] = m.sub[w] => v = w)
      THEN m ELSE NoMatch)

(***************************************************************************)
(* Rules: { lhs, rhs }.                                                    *)
(***************************************************************************)
Rule(l, r) == [lhs |-> l, rhs |-> r]

RuleLen(rule) == Len(rule.rhs)
RuleIsEmpty(rule) == rule.rhs = <<>>

Contains(seq, x) == \E i \in DOMAIN seq : seq[i] = x

RECURSIVE AppendNew(_, _, _)
AppendNew(rhs, new, i) ==
  IF i > Len(new) THEN rhs
  ELSE AppendNew(IF Contains(rhs, new[i]) THEN rhs ELSE Append(rhs, new[i]), new, i + 1)

\* the clauses of other, renamed to the variables of rule
Renamed(rule, other) ==
  Let(Alpha(other.lhs, rule.lhs), LAMBDA m :
    [i \in DOMAIN other.rhs |-> Substitute(other.rhs[i], m.sub)])

\* Rule::merge
Merge(rule, other) ==
  IF Alpha(other.lhs, rule.lhs).ok
    THEN Rule(rule.lhs, AppendNew(rule.rhs, Renamed(rule, other), 1))
    ELSE rule

\* Rule::discard: the rule without the clauses of other, and the clauses removed
Discard(rule, other) ==
  IF ~Alpha(other.lhs, rule.lhs).ok
    THEN [rule |-> rule, found |-> FALSE, discarded |-> <<>>]
    ELSE Let(Renamed(rule, other), LAMBDA gone :
         Let(SelectSeq(rule.rhs, LAMBDA c : Contains(gone, c)), LAMBDA lost :
           [rule |-> Rule(rule.lhs, SelectSeq(rule.rhs, LAMBDA c : ~Contains(gone, c))),
            found |-> lost # <<>>, discarded |-> lost]))

\* Rule::rewrite: the RHS instantiations, in clause order, when lhs matches
RuleRewrite(rule, t) ==
  Let(PMatch(rule.lhs, t), LAMBDA m :
    IF m.ok THEN [i \in DOMAIN rule.rhs |-> Substitute(rule.rhs[i], m.sub)] ELSE <<>>)

(***************************************************************************)
(* TRS mutators, as functions from a TRS value [rules, det] to the TRS     *)
(* after the call and the call's result.                                   *)
(***************************************************************************)
TRS(rs, d) == [rules |-> rs, det |-> d]
Result(rs, d, e) == [rules |-> rs, det |-> d, err |-> e]
Ok(T) == Result(T.rules, T.det, "Ok")
Err(T, e) == Result(T.rules, T.det, e)
AsTRS(R) == TRS(R.rules, R.det)

InsertAt(seq, idx, x) == SubSeq(seq, 1, idx) \o <<x>> \o SubSeq(seq, idx + 1, Len(seq))
RemoveAt(seq, idx) == SubSeq(seq, 1, idx) \o SubSeq(seq, idx + 2, Len(seq))

\* TRS::get: the 0-based index of the first rule with an alpha-equivalent LHS, or -1
Get(T, lhs) ==
  Let({i \in DOMAIN T.rules : Alpha(lhs, T.rules[i].lhs).ok}, LAMBDA hits :
    IF hits = {} THEN -1 ELSE (CHOOSE i \in hits : \A k \in hits : i <= k) - 1)

\* make_deterministic that sets the flag and keeps every clause
make_deterministic_no_truncate(T) ==
  [rules |-> T.rules, det |-> TRUE, err |-> "Ok", ret |-> ~T.det]

\* make_deterministic that keeps the last clause of every rule
make_deterministic_keep_last(T) ==
  IF ~T.det
    THEN [rules |-> [i \in DOMAIN T.rules |->
                       Rule(T.rules[i].lhs, SubSeq(T.rules[i].rhs, Len(T.rules[i].rhs),
                                                   Len(T.rules[i].rhs)))],
          det |-> TRUE, err |-> "Ok", ret |-> TRUE]
    ELSE [rules |-> T.rules, det |-> T.det, err |-> "Ok", ret |-> FALSE]

make_deterministic(T) ==
  IF ~T.det
    THEN [rules |-> [i \in DOMAIN T.rules |->
                       Rule(T.rules[i].lhs, SubSeq(T.rules[i].rhs, 1, 1))],
          det |-> TRUE, err |-> "Ok", ret |-> TRUE]
    ELSE [rules |-> T.rules, det |-> T.det, err |-> "Ok", ret |-> FALSE]

make_nondeterministic(T) ==
  [rules |-> T.rules, det |-> FALSE, err |-> "Ok", ret |-> T.det]

\* Term::canonicalize: a variable takes the id the map holds for it, or the
\* next free id (the size of the map), which the map then holds
RECURSIVE canonicalize_term(_, _)
RECURSIVE canonicalize_terms(_, _, _, _)
canonicalize_term(t, map) ==
  IF t.var
    THEN IF t.id \in DOMAIN map
           THEN [val |-> Var(map[t.id]), map |-> map]
           ELSE [val |-> Var(Cardinality(DOMAIN map)),
                 map |-> map @@ (t.id :> Cardinality(DOMAIN map))]
    ELSE Let(canonicalize_terms(t.args, 1, <<>>, map), LAMBDA r :
         [val |-> App(t.id, r.val), map |-> r.map])

canonicalize_terms(ts, i, acc, map) ==
  IF i > Len(ts) THEN [val |-> acc, map |-> map]
  ELSE Let(canonicalize_term(ts[i], map), LAMBDA r :
       canonicalize_terms(ts, i + 1, Append(acc, r.val), r.map))

\* rule.canonicalize(map) on each rule in order: the LHS, then the RHSs
RECURSIVE canonicalize_rules(_, _, _, _)
canonicalize_rules(rs, k, acc, map) ==
  IF k > Len(rs) THEN [val |-> acc, map |-> map]
  ELSE Let(canonicalize_terms(<<rs[k].lhs>> \o rs[k].rhs, 1, <<>>, map), LAMBDA r :
       canonicalize_rules(rs, k + 1, Append(acc, Rule(Head(r.val), Tail(r.val))), r.map))

\* TRS::canonicalize; ret is the map as the call leaves it
canonicalize(T, map) ==
  Let(canonicalize_rules(T.rules, 1, <<>>, map), LAMBDA r :
      [rules |-> r.val, det |-> T.det, err |-> "Ok", ret |-> r.map])

remove(T, lhs) ==
  Let(Get(T, lhs), LAMBDA idx :
    IF idx >= 0 THEN Result(RemoveAt(T.rules, idx), T.det, "Ok")
    ELSE Err(T, "NotInTRS"))

remove_idx(T, idx) ==
  IF Len(T.rules) > idx THEN Result(RemoveAt(T.rules, idx), T.det, "Ok")
  ELSE Err(T, "InvalidIndex")

\* the first rule (1-based) that discards some clause of rule, or 0
FirstDiscarding(T, rule) ==
  Let({i \in DOMAIN T.rules : Discard(T.rules[i], rule).found}, LAMBDA hits :
    IF hits = {} THEN 0 ELSE CHOOSE i \in hits : \A k \in hits : i <= k)

\* what remove_clauses returns on success: the clauses discarded, as a rule
removed_clauses(T, rule) ==
  Let(FirstDiscarding(T, rule), LAMBDA k :
    IF k = 0 THEN Rule(rule.lhs, <<>>)
    ELSE Rule(T.rules[k].lhs, Discard(T.rules[k], rule).discarded))

\* remove_clauses that leaves a rule without clauses in the list
remove_clauses_keep_empty(T, rule) ==
  Let(FirstDiscarding(T, rule), LAMBDA k :
    IF k = 0 THEN Err(T, "NotInTRS")
    ELSE Result([T.rules EXCEPT ![k] = Discard(T.rules[k], rule).rule], T.det, "Ok"))

remove_clauses(T, rule) ==
  Let(FirstDiscarding(T, rule), LAMBDA k :
    IF k = 0 THEN Err(T, "NotInTRS")
    ELSE Result(SelectSeq([T.rules EXCEPT ![k] = Discard(T.rules[k], rule).rule],
                          LAMBDA r : ~RuleIsEmpty(r)),
                T.det, "Ok"))

\* insert_idx that compares left-hand sides for equality, not up to renaming
insert_idx_equal_lhs(T, idx, rule) ==
  IF T.det /\ RuleLen(rule) > 1 THEN Err(T, "NondeterministicRule")
  ELSE IF idx > Len(T.rules) THEN Err(T, "InvalidIndex")
  ELSE IF \E k \in DOMAIN T.rules : T.rules[k].lhs = rule.lhs THEN Err(T, "AlreadyInTRS")
  ELSE Result(InsertAt(T.rules, idx, rule), T.det, "Ok")

\* insert_idx that refuses the index just past the last rule
insert_idx_off_by_one(T, idx, rule) ==
  IF T.det /\ RuleLen(rule) > 1 THEN Err(T, "NondeterministicRule")
  ELSE IF idx >= Len(T.rules) THEN Err(T, "InvalidIndex")
  ELSE IF Get(T, rule.lhs) >= 0 THEN Err(T, "AlreadyInTRS")
  ELSE Result(InsertAt(T.rules, idx, rule), T.det, "Ok")

insert_idx(T, idx, rule) ==
  IF T.det /\ RuleLen(rule) > 1 THEN Err(T, "NondeterministicRule")
  ELSE IF idx > Len(T.rules) THEN Err(T, "InvalidIndex")
  ELSE IF Get(T, rule.lhs) >= 0 THEN Err(T, "AlreadyInTRS")
  ELSE Result(InsertAt(T.rules, idx, rule), T.det, "Ok")

\* insert_clauses that merges whatever the flag
insert_clauses_any_mode(T, rule) ==
  Let(Get(T, rule.lhs), LAMBDA idx :
    IF idx >= 0
      THEN Result([T.rules EXCEPT ![idx + 1] = Merge(T.rules[idx + 1], rule)], T.det, "Ok")
      ELSE Err(T, "NotInTRS"))

insert_clauses(T, rule) ==
  IF T.det THEN Err(T, "NondeterministicRule")
  ELSE Let(Get(T, rule.lhs), LAMBDA idx :
       IF idx >= 0
         THEN Result([T.rules EXCEPT ![idx + 1] = Merge(T.rules[idx + 1], rule)], T.det, "Ok")
         ELSE Err(T, "NotInTRS"))

\* insert that goes straight to insert_idx
insert_no_merge(T, idx, rule) == insert_idx(T, idx, rule)

insert(T, idx, rule) ==
  Let(insert_clauses(T, rule), LAMBDA R :
    IF R.err # "Ok" THEN insert_idx(AsTRS(R), idx, rule) ELSE R)

\* move_rule that puts the rule back where it was
move_rule_back_at_i(T, i, j) ==
  IF i # j
    THEN Let(remove_idx(T, i), LAMBDA R :
         IF R.err # "Ok" THEN R
         ELSE insert(AsTRS(R), i, T.rules[i + 1]))
    ELSE Ok(T)

move_rule(T, i, j) ==
  IF i # j
    THEN Let(remove_idx(T, i), LAMBDA R :
         IF R.err # "Ok" THEN R
         ELSE insert(AsTRS(R), j, T.rules[i + 1]))
    ELSE Ok(T)

\* push that leaves the rule where insert put it
push_no_move(T, rule) == insert(T, 0, rule)

push(T, rule) ==
  Let(insert(T, 0, rule), LAMBDA R :
    IF R.err # "Ok" THEN R
    ELSE Let(Get(AsTRS(R), rule.lhs), LAMBDA idx :
         IF idx < 0 THEN Err(AsTRS(R), "NotInTRS")
         ELSE move_rule(AsTRS(R), idx, 0)))

\* rules.into_iter().rev(), stopping at the first error
RECURSIVE pushes_from(_, _, _)
pushes_from(T, rs, k) ==
  IF k = 0 THEN Ok(T)
  ELSE Let(push(T, rs[k]), LAMBDA R :
       IF R.err # "Ok" THEN R ELSE pushes_from(AsTRS(R), rs, k - 1))

\* pushes that takes the rules first to last
pushes_in_order(T, rs) == pushes_from(T, [i \in DOMAIN rs |-> rs[Len(rs) + 1 - i]], Len(rs))

pushes(T, rs) == pushes_from(T, rs, Len(rs))

RECURSIVE inserts_idx_from(_, _, _, _)
inserts_idx_from(T, idx, rs, k) ==
  IF k = 0 THEN Ok(T)
  ELSE Let(insert_idx(T, idx, rs[k]), LAMBDA R :
       IF R.err # "Ok" THEN R ELSE inserts_idx_from(AsTRS(R), idx, rs, k - 1))

inserts_idx(T, idx, rs) == inserts_idx_from(T, idx, rs, Len(rs))

replace(T, idx, rule1, rule2) ==
  Let(remove_clauses(T, rule1), LAMBDA R :
    IF R.err # "Ok" THEN R ELSE insert(AsTRS(R), idx, rule2))

\* TRS::new: pushes onto the empty nondeterministic TRS, result ignored
new(rs) == AsTRS(pushes(TRS(<<>>, FALSE), rs))

(***************************************************************************)
(* Rewriting.  A strategy's outcome is the sequence of terms the iterator  *)
(* yields, or a panic raised while rewrite() builds the iterator.          *)
(***************************************************************************)
Yield(ts) == [panic |-> FALSE, terms |-> ts]
Panic == [panic |-> TRUE, terms |-> <<>>]

None == [some |-> FALSE, terms |-> <<>>]
Some(ts) == [some |-> TRUE, terms |-> ts]
UnwrapOrEmpty(o) == IF o.some THEN o.terms ELSE <<>>

\* Term::replace(&[i], new) on an application, i 0-based
ReplaceArg(t, i, subterm) == App(t.id, [t.args EXCEPT ![i + 1] = subterm])

\* for rule in &self.rules, from the k-th: the first rule whose match gives clauses
RECURSIVE rewrite_head_from(_, _, _)
rewrite_head_from(rs, t, k) ==
  IF k > Len(rs) THEN None
  ELSE Let(RuleRewrite(rs[k], t), LAMBDA items :
       IF items # <<>> THEN Some(items)
       ELSE rewrite_head_from(rs, t, k + 1))

\* TRS::rewrite_head
rewrite_head(rs, t) == rewrite_head_from(rs, t, 1)

RECURSIVE Flatten(_)
Flatten(seqs) == IF seqs = <<>> THEN <<>> ELSE Head(seqs) \o Flatten(Tail(seqs))

\* TRS::rewrite_all
RECURSIVE rewrite_all(_, _)

\* rewrite_all that yields the rewrites of the arguments before those of the head
rewrite_all_args_first(rs, t) ==
  IF t.var THEN None
  ELSE Some(Flatten([i \in DOMAIN t.args |->
                  Let(UnwrapOrEmpty(rewrite_all(rs, t.args[i])), LAMBDA sub :
                    [k \in DOMAIN sub |-> ReplaceArg(t, i - 1, sub[k])])])
            \o UnwrapOrEmpty(rewrite_head(rs, t)))

\* rewrite_all that rewrites the head only
rewrite_all_head_only(rs, t) ==
  IF t.var THEN None ELSE Some(UnwrapOrEmpty(rewrite_head(rs, t)))

rewrite_all(rs, t) ==
  IF t.var THEN None
  ELSE Some(UnwrapOrEmpty(rewrite_head(rs, t))
            \o Flatten([i \in DOMAIN t.args |->
                  Let(UnwrapOrEmpty(rewrite_all(rs, t.args[i])), LAMBDA sub :
                    [k \in DOMAIN sub |-> ReplaceArg(t, i - 1, sub[k])])]))

\* TRS::rewrite_args and TRSRewrites::new under Strategy::Eager
RECURSIVE rewrite_args_from(_, _, _)
RECURSIVE rewrite_eager(_, _)
rewrite_args_from(rs, t, i) ==
  IF t.var \/ i > Len(t.args) THEN None
  ELSE Let(rewrite_eager(rs, t.args[i]), LAMBDA it :
       IF it # <<>>
         THEN Some([k \in DOMAIN it |-> App(t.id, [t.args EXCEPT ![i] = it[k]])])
         ELSE rewrite_args_from(rs, t, i + 1))

rewrite_args(rs, t) == rewrite_args_from(rs, t, 1)

\* the Eager strategy trying the head before the arguments
rewrite_eager_head_first(rs, t) ==
  Let(rewrite_head(rs, t), LAMBDA h :
    IF h.some THEN h.terms ELSE UnwrapOrEmpty(rewrite_args(rs, t)))

rewrite_eager(rs, t) ==
  Let(rewrite_args(rs, t), LAMBDA a :
    IF a.some THEN a.terms ELSE UnwrapOrEmpty(rewrite_head(rs, t)))

\* the first rule, from the k-th, whose Rule::rewrite of t yields something
RECURSIVE FirstRewrite(_, _, _)
FirstRewrite(rs, t, k) ==
  IF k > Len(rs) THEN <<>>
  ELSE Let(RuleRewrite(rs[k], t), LAMBDA it :
       IF it # <<>> THEN it ELSE FirstRewrite(rs, t, k + 1))

Frame(o, a, as) == [op |-> o, arg |-> a, args |-> as]
Reverse(s) == [i \in DOMAIN s |-> s[Len(s) + 1 - i]]
Pop(s) == SubSeq(s, 1, Len(s) - 1)
Top(s) == s[Len(s)]

NormalNone == [kind |-> "None", stack |-> <<>>, it |-> <<>>]
NormalPanic == [kind |-> "Panic", stack |-> <<>>, it |-> <<>>]

\* Normal::new, the loop over the stack of (operator, argument index, arguments)
RECURSIVE NormalSearch(_, _)
NormalSearch(rs, stack) ==
  IF stack = <<>> THEN NormalNone
  ELSE LET f == Top(stack)
           rest == Pop(stack)
       IN IF f.arg >= Len(f.args) THEN NormalPanic
          ELSE LET sub == f.args[f.arg + 1] IN
               IF sub.var THEN NormalSearch(rs, rest)
               ELSE Let(FirstRewrite(rs, sub, 1), LAMBDA it :
                    IF it # <<>>
                      THEN [kind |-> "Subterm", stack |-> Reverse(Append(rest, f)), it |-> it]
                      ELSE Let(IF f.arg + 1 < Len(f.args)
                                 THEN Append(rest, Frame(f.op, f.arg + 1, f.args))
                                 ELSE rest, LAMBDA s1 :
                           NormalSearch(rs, IF sub.args # <<>>
                                              THEN Append(s1, Frame(sub.id, 0, sub.args))
                                              ELSE s1)))

\* Normal::new
NormalNew(rs, t) ==
  IF t.var THEN NormalNone
  ELSE Let(FirstRewrite(rs, t, 1), LAMBDA it :
       IF it # <<>> THEN [kind |-> "Head", stack |-> <<>>, it |-> it]
       ELSE NormalSearch(rs, <<Frame(t.id, 0, t.args)>>))

\* the fold of Normal::next: the subterm put back into the frames, first frame first
RECURSIVE Embed(_, _, _)

\* a fold that drops the arguments to the right of the slot
Embed_drop_right(stack, k, subterm) ==
  IF k > Len(stack) THEN subterm
  ELSE Embed(stack, k + 1, App(stack[k].op, SubSeq(stack[k].args, 1, stack[k].arg) \o <<subterm>>))

Embed(stack, k, subterm) ==
  IF k > Len(stack) THEN subterm
  ELSE LET f == stack[k] IN
       Embed(stack, k + 1,
             App(f.op, SubSeq(f.args, 1, f.arg) \o <<subterm>>
                         \o SubSeq(f.args, f.arg + 2, Len(f.args))))

\* everything Normal::next yields
rewrite_normal(rs, t) ==
  Let(NormalNew(rs, t), LAMBDA n :
    IF n.kind = "Panic" THEN Panic
    ELSE IF n.kind = "Head" THEN Yield(n.it)
    ELSE IF n.kind = "Subterm" THEN Yield([k \in DOMAIN n.it |-> Embed(n.stack, 1, n.it[k])])
    ELSE Yield(<<>>))

(***************************************************************************)
(* The String strategy: terms as strings of atoms.                         *)
(***************************************************************************)
AtomVar(v) == [var |-> TRUE, id |-> v]
AtomOp(o) == [var |-> FALSE, id |-> o]

Nothing == [some |-> FALSE, val |-> <<>>]
Just(v) == [some |-> TRUE, val |-> v]

\* TRS::convert_term_to_string
RECURSIVE convert_term_to_string(_)
RECURSIVE ConcatStrings(_, _, _)
convert_term_to_string(t) ==
  IF t.var THEN Just(<<AtomVar(t.id)>>)
  ELSE IF OpArity(t.id) = 0 THEN Just(<<AtomOp(t.id)>>)
  ELSE IF OpName(t.id) = "." /\ OpArity(t.id) = 2 THEN ConcatStrings(t.args, 1, <<>>)
  ELSE Nothing

ConcatStrings(args, i, acc) ==
  IF i > Len(args) THEN Just(acc)
  ELSE Let(convert_term_to_string(args[i]), LAMBDA r :
       IF r.some THEN ConcatStrings(args, i + 1, acc \o r.val) ELSE Nothing)

\* TRS::convert_rule_to_strings
convert_rule_to_strings(rule) ==
  Let(convert_term_to_string(rule.lhs), LAMBDA l :
  Let([i \in DOMAIN rule.rhs |-> convert_term_to_string(rule.rhs[i])], LAMBDA r :
    IF l.some /\ \A i \in DOMAIN r : r[i].some
      THEN Just([lhs |-> l.val, rhs |-> [i \in DOMAIN r |-> r[i].val]])
      ELSE Nothing))

\* (lo..=n).combinations(k): the increasing k-sequences, in lexicographic order
RECURSIVE Combinations(_, _, _)
RECURSIVE CombinationsFrom(_, _, _, _)
Combinations(lo, n, k) ==
  IF k = 0 THEN << <<>> >> ELSE CombinationsFrom(lo, lo, n, k)

CombinationsFrom(first, lo, n, k) ==
  IF first > n THEN <<>>
  ELSE Let(Combinations(first + 1, n, k - 1), LAMBDA tails :
       [i \in DOMAIN tails |-> <<first>> \o tails[i]] \o CombinationsFrom(first + 1, lo, n, k))

\* TRS::valid_option
valid_option(pattern, breaks) ==
  \A i \in DOMAIN pattern : ~pattern[i].var => breaks[i + 1] - breaks[i] = 1

\* TRS::gen_breaks
gen_breaks(pattern, n) ==
  Let(Combinations(0, n, Len(pattern) - 1), LAMBDA combos :
    SelectSeq([i \in DOMAIN combos |-> <<0>> \o combos[i] \o <<n>>],
              LAMBDA x : valid_option(pattern, x)))

Segment(string, breaks, i) == SubSeq(string, breaks[i] + 1, breaks[i + 1])

\* TRS::match_pattern
RECURSIVE match_pattern_from(_, _, _, _, _)
match_pattern_from(pattern, breaks, string, i, matches) ==
  IF i > Len(pattern) THEN Just(matches)
  ELSE LET atom == pattern[i] IN
       Let(Segment(string, breaks, i), LAMBDA seg :
          IF atom.var /\ atom.id \in DOMAIN matches /\ matches[atom.id] # seg THEN Nothing
          ELSE IF ~atom.var /\ seg # <<atom>> THEN Nothing
          ELSE match_pattern_from(pattern, breaks, string, i + 1,
                 IF atom.var /\ atom.id \notin DOMAIN matches
                   THEN matches @@ (atom.id :> seg) ELSE matches))

match_pattern(pattern, breaks, string) == match_pattern_from(pattern, breaks, string, 1, <<>>)

\* TRS::substitute_pattern
RECURSIVE substitute_pattern_from(_, _, _, _)
substitute_pattern_from(pattern, matches, i, string) ==
  IF i > Len(pattern) THEN Just(string)
  ELSE LET atom == pattern[i] IN
       IF atom.var /\ atom.id \in DOMAIN matches
         THEN substitute_pattern_from(pattern, matches, i + 1, string \o matches[atom.id])
       ELSE IF ~atom.var
         THEN substitute_pattern_from(pattern, matches, i + 1, Append(string, atom))
       ELSE Nothing

substitute_pattern(pattern, matches) == substitute_pattern_from(pattern, matches, 1, <<>>)

AtomTerm(a) == IF a.var THEN Var(a.id) ELSE App(a.id, <<>>)

\* sig.operators().into_iter().find(|x| x.arity(sig) == 2 && x.name(sig) == Some("."))
DotOps == {o \in DOMAIN Sig : OpArity(o) = 2 /\ OpName(o) = "."}

RECURSIVE LeftAssoc(_, _, _, _)
LeftAssoc(bin_op, string, i, t) ==
  IF i > Len(string) THEN t
  ELSE LeftAssoc(bin_op, string, i + 1, App(bin_op, <<t, AtomTerm(string[i])>>))

\* a conversion that starts the fold one atom late
convert_to_term_skip_second(string) ==
  IF string = <<>> THEN Nothing
  ELSE IF DotOps = {} THEN Nothing
  ELSE LET bin_op == CHOOSE o \in DotOps : \A p \in DotOps : o <= p IN
       Just(LeftAssoc(bin_op, string, 3, AtomTerm(string[1])))

\* TRS::convert_to_term
convert_to_term(string) ==
  IF string = <<>> THEN Nothing
  ELSE IF DotOps = {} THEN Nothing
  ELSE LET bin_op == CHOOSE o \in DotOps : \A p \in DotOps : o <= p IN
       Just(LeftAssoc(bin_op, string, 2, AtomTerm(string[1])))

\* TRS::rewrite_as_string, the loop over the RHS patterns of one accepted split
RECURSIVE StringClauses(_, _, _, _)
StringClauses(rhss, k, matches, acc) ==
  IF ~acc.some \/ k > Len(rhss) THEN acc
  ELSE Let(substitute_pattern(rhss[k], matches), LAMBDA new_string :
       IF ~new_string.some THEN Nothing
       ELSE Let(convert_to_term(new_string.val), LAMBDA new_term :
            IF ~new_term.some THEN Nothing
            ELSE StringClauses(rhss, k + 1, matches, Just(Append(acc.val, new_term.val)))))

\* TRS::rewrite_as_string, the loop over the splits of one rule
RECURSIVE StringBreaks(_, _, _, _, _)
StringBreaks(pattern, breaks, k, string, acc) ==
  IF ~acc.some \/ k > Len(breaks) THEN acc
  ELSE Let(match_pattern(pattern.lhs, breaks[k], string), LAMBDA m :
       StringBreaks(pattern, breaks, k + 1, string,
                    IF m.some THEN StringClauses(pattern.rhs, 1, m.val, acc) ELSE acc))

\* TRS::rewrite_as_string, the loop over the rules
RECURSIVE StringRules(_, _, _, _)
StringRules(rs, k, string, acc) ==
  IF ~acc.some \/ k > Len(rs) THEN acc
  ELSE Let(convert_rule_to_strings(rs[k]), LAMBDA pattern :
       IF ~pattern.some THEN Nothing
       ELSE StringRules(rs, k + 1, string,
              StringBreaks(pattern.val, gen_breaks(pattern.val.lhs, Len(string)), 1, string, acc)))

\* TRS::rewrite_as_string
rewrite_as_string(rs, t) ==
  Let(convert_term_to_string(t), LAMBDA string :
    IF ~string.some THEN Nothing ELSE StringRules(rs, 1, string.val, Just(<<>>)))

\* TRSRewrites::new and everything the iterator yields
rewrite(rs, t, strat) ==
  IF strat = "Normal" THEN rewrite_normal(rs, t)
  ELSE IF strat = "Eager" THEN Yield(rewrite_eager(rs, t))
  ELSE IF strat = "All" THEN Yield(UnwrapOrEmpty(rewrite_all(rs, t)))
  ELSE Let(rewrite_as_string(rs, t), LAMBDA r : Yield(IF r.some THEN r.val ELSE <<>>))

(***************************************************************************)
(* PString: the edit probability of y given x.  The model keeps what the   *)
(* sum and the recurrence do with counters and indices: the keys summed,   *)
(* the keys cached and the elements of x and y read.  The f64 products are *)
(* left out.                                                               *)
(***************************************************************************)
\* PString::new
PString(x, y) == [m |-> Len(x), n |-> Len(y), x |-> x, y |-> y]

\* usize::saturating_sub
saturating_sub(a, b) == IF a > b THEN a - b ELSE 0

\* a cold cache, nothing read yet
NewQuery == [cache |-> {}, reads |-> {}, oob |-> FALSE, fallback |-> FALSE]

\* &self.x[i], &self.y[j] handed to p_sub (i, j from 0); an index past the
\* end panics
Index(self, i, j, q) ==
  IF q.oob THEN q
  ELSE IF i >= Len(self.x) \/ j >= Len(self.y) THEN [q EXCEPT !.oob = TRUE]
  ELSE [q EXCEPT !.reads = @ \cup {[i |-> i, j |-> j, eq |-> self.x[i + 1] = self.y[j + 1]]}]

\* PString::query, as the cache and the reads it leaves behind
RECURSIVE query(_, _, _)
query(self, key, q) ==
  IF q.oob \/ key \in q.cache THEN q
  ELSE Let(key[1], LAMBDA t : Let(key[2], LAMBDA d : Let(key[3], LAMBDA s :
       Let(IF t = 0 /\ d = 0 /\ s = 0 THEN q
           ELSE IF t > 0 /\ d = 0 /\ s = 0 THEN query(self, <<t - 1, 0, 0>>, q)
           ELSE IF t = 0 /\ d > 0 /\ s = 0 THEN query(self, <<0, d - 1, 0>>, q)
           ELSE IF t = 0 /\ d = 0 /\ s > 0
             THEN Index(self, s - 1, s - 1, query(self, <<0, 0, s - 1>>, q))
           ELSE IF t > 0 /\ d > 0 /\ s = 0
             THEN query(self, <<t, d - 1, 0>>, query(self, <<t - 1, d, 0>>, q))
           ELSE IF t > 0 /\ d = 0 /\ s > 0
             THEN Index(self, s - 1, s + t - 1,
                        query(self, <<t, 0, s - 1>>, query(self, <<t - 1, 0, s>>, q)))
           ELSE IF t = 0 /\ d > 0 /\ s > 0
             THEN Index(self, s + d - 1, s - 1,
                        query(self, <<0, d, s - 1>>, query(self, <<0, d - 1, s>>, q)))
           ELSE IF t > 0 /\ d > 0 /\ s > 0
             THEN Index(self, s + d - 1, s + t - 1,
                        query(self, <<t, d, s - 1>>,
                              query(self, <<t, d - 1, s>>, query(self, <<t - 1, d, s>>, q))))
           ELSE [q EXCEPT !.fallback = TRUE],
           LAMBDA r : IF r.oob THEN r ELSE [r EXCEPT !.cache = @ \cup {key}]))))

\* a key whose substitutions are not reduced by the insertions
compute_key_all_substituted(self, t) == <<t, self.m + t - self.n, self.n>>

\* PString::compute, the key of the term summed for t insertions
compute_key(self, t) == <<t, self.m + t - self.n, self.n - t>>

\* PString::compute, the filter_map over t_start..=t_end
RECURSIVE compute_from(_, _, _, _)
compute_from(self, t, t_end, acc) ==
  IF t > t_end THEN acc
  ELSE IF t > self.n \/ self.n > self.m + t THEN compute_from(self, t + 1, t_end, acc)
  ELSE compute_from(self, t + 1, t_end,
                    [terms |-> Append(acc.terms, compute_key(self, t)),
                     q |-> query(self, compute_key(self, t), acc.q)])

\* PString::compute
compute(self, t_max, d_max) ==
  compute_from(self, saturating_sub(self.n, self.m),
               Let(saturating_sub(d_max + self.n, self.m),
                   LAMBDA t_end : IF t_max <= t_end THEN t_max ELSE t_end),
               [terms |-> <<>>, q |-> NewQuery])

(***************************************************************************)
(* The shared signature: operator records (arity, name) and variable       *)
(* records (name) behind a reader-writer lock, and the handles (kind, id)  *)
(* the threads hold.  writer is the thread holding the lock exclusively,   *)
(* or 0; readers are the threads holding it shared.                        *)
(***************************************************************************)
Threads == 1..MaxThreads

NoName == [some |-> FALSE, val |-> ""]
NameOf(n) == [some |-> TRUE, val |-> n]
Names == {NoName, NameOf("A")}
Arities == {0, 2}

Value(v) == [panic |-> FALSE, val |-> v]
\* an index past the end of a Vec
IndexPanic == [panic |-> TRUE, val |-> 0]

NoHandle == [kind |-> "none", id |-> 0, arity |-> 0, name |-> NoName]
IdleThread == [pc |-> "idle", h |-> NoHandle, call |-> "none", result |-> Value(0)]

EmptySig ==
  [operators |-> <<>>, variables |-> <<>>, writer |-> 0, readers |-> {},
   handles |-> {}, thread |-> [t \in Threads |-> IdleThread]]

\* an arity read that takes the last record, not the record of the handle
Operator_arity_last(reg, id) ==
  IF reg.operators # <<>> THEN Value(reg.operators[Len(reg.operators)].arity) ELSE IndexPanic

\* Operator::arity, with the read lock held
Operator_arity(reg, id) ==
  IF id < Len(reg.operators) THEN Value(reg.operators[id + 1].arity) ELSE IndexPanic

\* Operator::name
Operator_name(reg, id) ==
  IF id < Len(reg.operators) THEN Value(reg.operators[id + 1].name) ELSE IndexPanic

\* Operator::display
Operator_display(reg, id) ==
  IF id < Len(reg.operators)
    THEN IF reg.operators[id + 1].name.some
           THEN Value(reg.operators[id + 1].name.val)
           ELSE Value("op" \o ToString(id))
    ELSE IndexPanic

\* Variable::name
Variable_name(reg, id) ==
  IF id < Len(reg.variables) THEN Value(reg.variables[id + 1].name) ELSE IndexPanic

\* Variable::display
Variable_display(reg, id) ==
  IF id < Len(reg.variables)
    THEN IF reg.variables[id + 1].name.some
           THEN Value(reg.variables[id + 1].name.val \o "_")
           ELSE Value("var" \o ToString(id) \o "_")
    ELSE IndexPanic

\* the read a thread makes through its handle
Read(reg, h, call) ==
  IF h.kind = "op"
    THEN IF call = "arity" THEN Operator_arity(reg, h.id)
         ELSE IF call = "name" THEN Operator_name(reg, h.id)
         ELSE Operator_display(reg, h.id)
    ELSE IF call = "name" THEN Variable_name(reg, h.id)
         ELSE Variable_display(reg, h.id)

Calls(h) == IF h.kind = "op" THEN {"arity", "name", "display"} ELSE {"name", "display"}

SigThread(t, th) == [sig EXCEPT !.thread[t] = th]

\* new_op / new_var: sig.write(), granted when nobody holds the lock
WriteLock(t) ==
  /\ sig.thread[t].pc = "idle"
  /\ sig.writer = 0 /\ sig.readers = {}
  /\ Len(sig.operators) + Len(sig.variables) < MaxRecords
  /\ \E k \in {"op", "var"}, a \in Arities, n \in Names :
       /\ k = "var" => a = 0
       /\ sig' = [SigThread(t, [pc |-> "write",
                                h |-> [kind |-> k, id |-> 0, arity |-> a, name |-> n],
                                call |-> "none", result |-> Value(0)])
                    EXCEPT !.writer = t]
  /\ UNCHANGED <<rules, is_deterministic, op, arg, res, pre, term, strategy, out>>

\* new_op: operators.push((arity, name)); the handle is the new last index
NewOp(t) ==
  /\ sig.thread[t].pc = "write" /\ sig.thread[t].h.kind = "op"
  /\ sig' = [sig EXCEPT
               !.operators = Append(@, [arity |-> sig.thread[t].h.arity,
                                        name |-> sig.thread[t].h.name]),
               !.thread[t].h.id = Len(sig.operators),
               !.thread[t].pc = "written"]
  /\ UNCHANGED <<rules, is_deterministic, op, arg, res, pre, term, strategy, out>>

\* new_var: variables.push(name); the handle is the new last index
NewVar(t) ==
  /\ sig.thread[t].pc = "write" /\ sig.thread[t].h.kind = "var"
  /\ sig' = [sig EXCEPT
               !.variables = Append(@, [name |-> sig.thread[t].h.name]),
               !.thread[t].h.id = Len(sig.variables),
               !.thread[t].pc = "written"]
  /\ UNCHANGED <<rules, is_deterministic, op, arg, res, pre, term, strategy, out>>

\* the write guard is dropped and the handle returned
WriteUnlock(t) ==
  /\ sig.thread[t].pc = "written"
  /\ sig' = [sig EXCEPT !.writer = 0,
                         !.handles = @ \cup {sig.thread[t].h},
                         !.thread[t] = IdleThread]
  /\ UNCHANGED <<rules, is_deterministic, op, arg, res, pre, term, strategy, out>>

\* arity / name / display on a handle: sig.read(), granted when no writer holds the lock
ReadLock(t) ==
  /\ sig.thread[t].pc = "idle"
  /\ sig.writer = 0
  /\ \E h \in sig.handles : \E c \in Calls(h) :
       sig' = [SigThread(t, [pc |-> "read", h |-> h, call |-> c, result |-> Value(0)])
                 EXCEPT !.readers = @ \cup {t}]
  /\ UNCHANGED <<rules, is_deterministic, op, arg, res, pre, term, strategy, out>>

\* the indexing of the registry by the handle's id
ReadIndex(t) ==
  /\ sig.thread[t].pc = "read"
  /\ sig' = [sig EXCEPT
               !.thread[t].result = Read(sig, sig.thread[t].h, sig.thread[t].call),
               !.thread[t].pc = "read_done"]
  /\ UNCHANGED <<rules, is_deterministic, op, arg, res, pre, term, strategy, out>>

\* the read guard is dropped and the value returned
ReadUnlock(t) ==
  /\ sig.thread[t].pc = "read_done"
  /\ sig' = [sig EXCEPT !.readers = @ \ {t}, !.thread[t] = IdleThread]
  /\ UNCHANGED <<rules, is_deterministic, op, arg, res, pre, term, strategy, out>>

(***************************************************************************)
(* The rules and rule lists handed to the mutators.                        *)
(***************************************************************************)
RulePool ==
  { Rule(tA, <<tB>>), Rule(tA, <<tB, tD>>), Rule(tC, <<tD>>),
    Rule(tF(vx), <<tG>>), Rule(tF(vy), <<vy>>) }

LhsPool == {r.lhs : r \in RulePool}

RECURSIVE SeqsUpTo(_, _)
SeqsUpTo(S, n) ==
  IF n = 0 THEN {<<>>}
  ELSE Let(SeqsUpTo(S, n - 1), LAMBDA shorter :
       shorter \cup {Append(s, x) : s \in {t \in shorter : Len(t) = n - 1}, x \in S})

\* the rules the lists handed to new, pushes and inserts_idx are made of;
\* a list holds a rule at most once
BatchPool ==
  { Rule(tA, <<tB, tD>>), Rule(tC, <<tD>>), Rule(tF(vx), <<tG>>), Rule(tF(vy), <<vy>>) }

Batches ==
  {rs \in SeqsUpTo(BatchPool, MaxBatch) : \A i, j \in DOMAIN rs : rs[i] = rs[j] => i = j}

Indices == 0..MaxIdx

NoArg == [i |-> 0]
NoTerm == Var(0)
NoOut == [panic |-> FALSE, terms |-> <<>>]

Here == TRS(rules, is_deterministic)

\* no call is in progress: the TRS is all there is
Idle == op = "idle"

\* a call returns: the TRS it leaves, what was called and what it returned
Called(name, a, R) ==
  /\ rules' = R.rules
  /\ is_deterministic' = R.det
  /\ op' = name
  /\ arg' = a
  /\ res' = R.err
  /\ pre' = Here
  /\ UNCHANGED <<term, strategy, out, sig>>

\* the caller takes the result; the call's arguments and result are gone
Return ==
  /\ ~Idle
  /\ strategy = "None"
  /\ op' = "idle"
  /\ arg' = NoArg
  /\ res' = "Ok"
  /\ pre' = Here
  /\ UNCHANGED <<rules, is_deterministic, term, strategy, out, sig>>

Push ==
  Idle /\ \E r \in RulePool :
    \E R \in {push(Here, r)} : Called("push", [rule |-> r], R)

Pushes ==
  Idle /\ \E rs \in Batches :
    \E R \in {pushes(Here, rs)} : Called("pushes", [rules |-> rs], R)

Insert ==
  Idle /\ \E i \in Indices, r \in RulePool :
    \E R \in {insert(Here, i, r)} : Called("insert", [idx |-> i, rule |-> r], R)

InsertIdx ==
  Idle /\ \E i \in Indices, r \in RulePool :
    \E R \in {insert_idx(Here, i, r)} : Called("insert_idx", [idx |-> i, rule |-> r], R)

InsertsIdx ==
  Idle /\ \E i \in Indices, rs \in Batches :
    \E R \in {inserts_idx(Here, i, rs)} : Called("inserts_idx", [idx |-> i, rules |-> rs], R)

InsertClauses ==
  Idle /\ \E r \in RulePool :
    \E R \in {insert_clauses(Here, r)} : Called("insert_clauses", [rule |-> r], R)

Remove ==
  Idle /\ \E l \in LhsPool :
    \E R \in {remove(Here, l)} : Called("remove", [lhs |-> l], R)

RemoveIdx ==
  Idle /\ \E i \in Indices :
    \E R \in {remove_idx(Here, i)} : Called("remove_idx", [idx |-> i], R)

RemoveClauses ==
  Idle /\ \E r \in RulePool :
    \E R \in {remove_clauses(Here, r)} :
      Called("remove_clauses", [rule |-> r, ret |-> removed_clauses(Here, r)], R)

Replace ==
  Idle /\ \E i \in Indices, r1, r2 \in RulePool :
    \E R \in {replace(Here, i, r1, r2)} :
      Called("replace", [idx |-> i, rule1 |-> r1, rule2 |-> r2], R)

MoveRule ==
  Idle /\ \E i, j \in Indices :
    \E R \in {move_rule(Here, i, j)} : Called("move_rule", [i |-> i, j |-> j], R)

MakeDeterministic ==
  Idle /\ \E R \in {make_deterministic(Here)} : Called("make_deterministic", [ret |-> R.ret], R)

MakeNondeterministic ==
  Idle /\ \E R \in {make_nondeterministic(Here)} : Called("make_nondeterministic", [ret |-> R.ret], R)

\* canonicalize with a fresh map, or with a map that already holds y_
Canonicalize ==
  Idle /\ \E map \in {<<>>, (1 :> 0)} :
    \E R \in {canonicalize(Here, map)} : Called("canonicalize", [map |-> map, ret |-> R.ret], R)

\* TRS::new(rules)
Init ==
  /\ \E rs \in Batches :
       \E T \in {new(rs)} :
         /\ rules = T.rules
         /\ is_deterministic = T.det
         /\ arg = [rules |-> rs]
  /\ op = "new"
  /\ res = "Ok"
  /\ pre = TRS(<<>>, FALSE)
  /\ term = NoTerm
  /\ strategy = "None"
  /\ out = NoOut
  /\ sig = EmptySig

Next ==
  \/ Push
  \/ Pushes
  \/ Insert
  \/ InsertIdx
  \/ InsertsIdx
  \/ InsertClauses
  \/ Remove
  \/ RemoveIdx
  \/ RemoveClauses
  \/ Replace
  \/ MoveRule
  \/ MakeDeterministic
  \/ MakeNondeterministic
  \/ Canonicalize
  \/ Return

Spec == Init /\ [][Next]_vars

(***************************************************************************)
(* Rewriting a term with a TRS built by TRS::new.                          *)
(***************************************************************************)
RWPool ==
  { Rule(tA, <<tB>>), Rule(tC, <<tA, tE>>), Rule(tF(vx), <<tG>>),
    Rule(tF(tA), <<tH>>), Rule(tDot(vx, tA), <<tDot(tC, vx)>>) }

\* the rule lists handed to new; a list holds a rule at most once
RWLists ==
  {rs \in SeqsUpTo(RWPool, MaxRWRules) : \A i, j \in DOMAIN rs : rs[i] = rs[j] => i = j}

\* the operators input terms are built from
Nullary == {OpNamed("A"), OpNamed("C")}
Unary == {OpNamed("F")}
Binary == {OpNamed(".")}

RECURSIVE TermsOfSize(_)
TermsOfSize(n) ==
  IF n = 1 THEN {Var(0)} \cup {App(o, <<>>) : o \in Nullary}
  ELSE {App(o, <<t>>) : o \in Unary, t \in TermsOfSize(n - 1)}
       \cup UNION { {App(o, <<a, b>>) : o \in Binary, a \in TermsOfSize(k),
                                       b \in TermsOfSize(n - 1 - k)} : k \in 1..(n - 2) }

Terms == UNION {TermsOfSize(n) : n \in 1..MaxSize}

Strategies == {"Normal", "Eager", "All", "String"}

InitRW ==
  /\ \E rs \in RWLists :
       \E T \in {new(rs)} :
         /\ rules = T.rules
         /\ is_deterministic = T.det
         /\ arg = [rules |-> rs]
  /\ op = "new"
  /\ res = "Ok"
  /\ pre = TRS(<<>>, FALSE)
  /\ term \in Terms
  /\ strategy = "None"
  /\ out = NoOut
  /\ sig = EmptySig

Rewrite(strat) ==
  /\ strategy = "None"
  /\ strategy' = strat
  /\ out' = rewrite(rules, term, strat)
  /\ UNCHANGED <<rules, is_deterministic, op, arg, res, pre, term, sig>>

RewriteNormal == Rewrite("Normal")
RewriteEager == Rewrite("Eager")
RewriteAll == Rewrite("All")
RewriteString == Rewrite("String")

NextRW ==
  \/ RewriteNormal
  \/ RewriteEager
  \/ RewriteAll
  \/ RewriteString

SpecRW == InitRW /\ [][NextRW]_vars

(***************************************************************************)
(* String matching on its own: a flattened LHS against a flattened input,  *)
(* as the loop of rewrite_as_string runs it.                               *)
(***************************************************************************)
Atoms == {AtomOp(OpNamed("A")), AtomOp(OpNamed("C")), AtomVar(0), AtomVar(1)}
StringAtoms == {AtomOp(OpNamed("A")), AtomOp(OpNamed("C")), AtomVar(0)}

Patterns == SeqsUpTo(Atoms, MaxPattern) \ {<<>>}
Strings == SeqsUpTo(StringAtoms, MaxString) \ {<<>>}

\* for breaks in gen_breaks(pattern, string.len()): the splits match_pattern
\* accepts, each with its bindings, in order
MatchSplits(pattern, string) ==
  Let(gen_breaks(pattern, Len(string)), LAMBDA bs :
    SelectSeq([i \in DOMAIN bs |->
                 [breaks |-> bs[i], matches |-> match_pattern(pattern, bs[i], string)]],
              LAMBDA r : r.matches.some))

InitMatch ==
  /\ rules = <<>>
  /\ is_deterministic = FALSE
  /\ op = "idle"
  /\ \E p \in Patterns : \E s \in Strings : arg = [pattern |-> p, string |-> s]
  /\ res = "Ok"
  /\ pre = TRS(<<>>, FALSE)
  /\ term = NoTerm
  /\ strategy = "None"
  /\ out = NoOut
  /\ sig = EmptySig

MatchPattern ==
  /\ op = "idle"
  /\ op' = "match_pattern"
  /\ out' = Yield(MatchSplits(arg.pattern, arg.string))
  /\ UNCHANGED <<rules, is_deterministic, arg, res, pre, term, strategy, sig>>

NextMatch == MatchPattern

SpecMatch == InitMatch /\ [][NextMatch]_vars

(***************************************************************************)
(* A string of atoms made a term and flattened again.                      *)
(***************************************************************************)
\* the strings substitute_pattern hands over: variables and the nullary
\* operators convert_term_to_string emits, the empty string included (a
\* variable bound to an empty segment)
ConvertStrings ==
  SeqsUpTo(StringAtoms \cup {AtomOp(OpNamed("B")), AtomVar(1)}, MaxString)

InitConvert ==
  /\ rules = <<>>
  /\ is_deterministic = FALSE
  /\ op = "idle"
  /\ \E s \in ConvertStrings : arg = [string |-> s]
  /\ res = "Ok"
  /\ pre = TRS(<<>>, FALSE)
  /\ term = NoTerm
  /\ strategy = "None"
  /\ out = NoOut
  /\ sig = EmptySig

\* convert_to_term on the string, then convert_term_to_string on its result
Convert ==
  /\ op = "idle"
  /\ op' = "convert_to_term"
  /\ out' = Let(convert_to_term(arg.string), LAMBDA t :
               [term |-> t,
                string |-> IF t.some THEN convert_term_to_string(t.val) ELSE Nothing])
  /\ UNCHANGED <<rules, is_deterministic, arg, res, pre, term, strategy, sig>>

NextConvert == Convert

SpecConvert == InitConvert /\ [][NextConvert]_vars

(***************************************************************************)
(* The edit probability of one string given another.                       *)
(***************************************************************************)
PStrings == SeqsUpTo({AtomOp(OpNamed("A")), AtomOp(OpNamed("C"))}, MaxString)

InitPString ==
  /\ rules = <<>>
  /\ is_deterministic = FALSE
  /\ op = "idle"
  /\ \E x \in PStrings, y \in PStrings, t_max \in 0..MaxEdits, d_max \in 0..MaxEdits :
       arg = [x |-> x, y |-> y, t_max |-> t_max, d_max |-> d_max]
  /\ res = "Ok"
  /\ pre = TRS(<<>>, FALSE)
  /\ term = NoTerm
  /\ strategy = "None"
  /\ out = NoOut
  /\ sig = EmptySig

\* PString::new(x, y, dist, sig).compute(t_max, d_max)
Compute ==
  /\ op = "idle"
  /\ op' = "compute"
  /\ out' = compute(PString(arg.x, arg.y), arg.t_max, arg.d_max)
  /\ UNCHANGED <<rules, is_deterministic, arg, res, pre, term, strategy, sig>>

NextPString == Compute

SpecPString == InitPString /\ [][NextPString]_vars

(***************************************************************************)
(* Threads sharing a signature.                                            *)
(***************************************************************************)
InitSig ==
  /\ rules = <<>>
  /\ is_deterministic = FALSE
  /\ op = "idle"
  /\ arg = NoArg
  /\ res = "Ok"
  /\ pre = TRS(<<>>, FALSE)
  /\ term = NoTerm
  /\ strategy = "None"
  /\ out = NoOut
  /\ sig = EmptySig

NextSig ==
  \E t \in Threads :
    \/ WriteLock(t)
    \/ NewOp(t)
    \/ NewVar(t)
    \/ WriteUnlock(t)
    \/ ReadLock(t)
    \/ ReadIndex(t)
    \/ ReadUnlock(t)

SpecSig == InitSig /\ [][NextSig]_vars

(***************************************************************************)
(* Invariants of the rule list.                                            *)
(***************************************************************************)
\* C1: after TRS::new and any sequence of mutator calls, successful or not,
\* no two rules of the TRS have alpha-equivalent left-hand sides.
C1_UniqueLhs ==
  \A i, j \in DOMAIN rules :
    i # j => ~Alpha(rules[i].lhs, rules[j].lhs).ok

\* C2: whenever the TRS is deterministic, every rule has exactly one clause.
C2_DeterministicSingleClause ==
  is_deterministic => \A i \in DOMAIN rules : RuleLen(rules[i]) = 1

(***************************************************************************)
(* Failed mutations.                                                       *)
(***************************************************************************)
Unchanged == rules = pre.rules /\ is_deterministic = pre.det

\* C5: whenever move_rule(i, j) returns an error, the TRS holds the same
\* rules in the same order as before the call.
C5_MoveRuleErrorUnchanged ==
  (op = "move_rule" /\ res # "Ok") => Unchanged

\* C6: whenever replace(idx, rule1, rule2) returns an error, the TRS is
\* unchanged.
C6_ReplaceErrorUnchanged ==
  (op = "replace" /\ res # "Ok") => Unchanged

HasAlphaLhs(T, lhs) == \E k \in DOMAIN T.rules : Alpha(T.rules[k].lhs, lhs).ok

\* C7: insert_idx(idx, rule) fails with NondeterministicRule when the TRS is
\* deterministic and rule has several clauses, else with InvalidIndex when
\* idx > len, else with AlreadyInTRS when a rule has an alpha-equivalent LHS;
\* a failed call leaves the rule list and the flag as they were, and every
\* other call puts rule at index idx and keeps the order of the other rules.
C7_InsertIdx ==
  op = "insert_idx" =>
    LET nondet == pre.det /\ RuleLen(arg.rule) > 1
        badidx == arg.idx > Len(pre.rules)
        present == HasAlphaLhs(pre, arg.rule.lhs)
    IN /\ nondet => res = "NondeterministicRule"
       /\ (~nondet /\ badidx) => res = "InvalidIndex"
       /\ (~nondet /\ ~badidx /\ present) => res = "AlreadyInTRS"
       /\ res # "Ok" => Unchanged
       /\ (~nondet /\ ~badidx /\ ~present) =>
            /\ res = "Ok"
            /\ is_deterministic = pre.det
            /\ Len(rules) = Len(pre.rules) + 1
            /\ rules[arg.idx + 1] = arg.rule
            /\ RemoveAt(rules, arg.idx) = pre.rules

(***************************************************************************)
(* States in which the cases above have happened.                          *)
(***************************************************************************)
\* an insert_idx of F(y_) = ... was refused because F(x_) = ... is a rule
C1_Witness ==
  /\ op = "insert_idx" /\ res = "AlreadyInTRS"
  /\ Len(rules) >= 2
  /\ \A k \in DOMAIN rules : rules[k].lhs # arg.rule.lhs

\* make_deterministic has cut a rule of several clauses down to one
C2_Witness ==
  /\ op = "make_deterministic" /\ is_deterministic
  /\ \E k \in DOMAIN pre.rules : RuleLen(pre.rules[k]) > 1

\* an insert_idx between two rules has succeeded
C7_Witness ==
  /\ op = "insert_idx" /\ res = "Ok"
  /\ arg.idx = 1 /\ Len(rules) = 3

(***************************************************************************)
(* The rewrite strategies.                                                 *)
(***************************************************************************)
Rewritten == strategy # "None"

Range(seq) == {seq[i] : i \in DOMAIN seq}

\* the rules (1-based) whose LHS matches t
Matching(rs, t) == {k \in DOMAIN rs : PMatch(rs[k].lhs, t).ok}
FirstMatching(rs, t) == CHOOSE k \in Matching(rs, t) : \A j \in Matching(rs, t) : k <= j

RECURSIVE HasRedex(_, _)
HasRedex(rs, t) ==
  \/ Matching(rs, t) # {}
  \/ \E i \in DOMAIN t.args : HasRedex(rs, t.args[i])

\* the rewrites at the first redex position of t in pre-order, by the first
\* rule matching there, each put back in its place in t
RECURSIVE LeftmostOutermost(_, _)
RECURSIVE LeftmostOutermostArgs(_, _, _)
LeftmostOutermost(rs, t) ==
  IF Matching(rs, t) # {} THEN RuleRewrite(rs[FirstMatching(rs, t)], t)
  ELSE LeftmostOutermostArgs(rs, t, 1)

LeftmostOutermostArgs(rs, t, i) ==
  IF i > Len(t.args) THEN <<>>
  ELSE IF HasRedex(rs, t.args[i])
    THEN LET inner == LeftmostOutermost(rs, t.args[i]) IN
         [k \in DOMAIN inner |-> ReplaceArg(t, i - 1, inner[k])]
    ELSE LeftmostOutermostArgs(rs, t, i + 1)

\* C3: rewrite(term, Normal) yields the term with only the subterm at its
\* first redex position in pre-order replaced, by each RHS instantiation of
\* the first rule matching there, whatever the depth of that position.
C3_NormalLeftmostOutermost ==
  (strategy = "Normal" /\ HasRedex(rules, term)) =>
    out = Yield(LeftmostOutermost(rules, term))

\* C4: every term yielded under Normal is yielded under All.
C4_NormalSubsetOfAll ==
  strategy = "Normal" =>
    Range(out.terms) \subseteq Range(rewrite(rules, term, "All").terms)

\* the RHS instantiations of every rule of ks, in TRS order
RECURSIVE EveryMatch(_, _, _)
EveryMatch(rs, t, k) ==
  IF k > Len(rs) THEN <<>>
  ELSE RuleRewrite(rs[k], t) \o EveryMatch(rs, t, k + 1)

\* C8: when several rules match the input term itself, Normal and Eager (no
\* argument having a redex) yield the RHS instantiations of the first of
\* them only, and All yields at that site those of every matching rule, in
\* TRS order.
C8_SeveralRulesMatch ==
  Cardinality(Matching(rules, term)) >= 2 =>
    LET first == RuleRewrite(rules[FirstMatching(rules, term)], term)
        every == EveryMatch(rules, term, 1)
    IN /\ strategy = "Normal" => out = Yield(first)
       /\ (strategy = "Eager" /\ \A i \in DOMAIN term.args : ~HasRedex(rules, term.args[i]))
            => out = Yield(first)
       /\ strategy = "All" =>
            /\ Len(out.terms) >= Len(every)
            /\ SubSeq(out.terms, 1, Len(every)) = every

\* C9: under no strategy is a yielded term equal to the input term.
C9_NeverYieldsInput ==
  Rewritten => \A k \in DOMAIN out.terms : out.terms[k] # term

\* some rule's flattened LHS has an accepted split of the flattened term
StringRedex(rs, t) ==
  LET string == convert_term_to_string(t) IN
  /\ string.some
  /\ \E k \in DOMAIN rs :
       LET pattern == convert_rule_to_strings(rs[k]) IN
       /\ pattern.some
       /\ \E b \in Range(gen_breaks(pattern.val.lhs, Len(string.val))) :
            match_pattern(pattern.val.lhs, b, string.val).some

NoRedex == IF strategy = "String" THEN ~StringRedex(rules, term) ELSE ~HasRedex(rules, term)

\* C10: when nothing in the input is matched by a rule LHS (a bare variable
\* and a nullary constant included), rewrite returns normally and yields
\* nothing, under every strategy.
C10_NoRedexYieldsNothing ==
  (Rewritten /\ NoRedex) => out = Yield(<<>>)

(***************************************************************************)
(* Eager and All.                                                          *)
(***************************************************************************)
\* the arguments (1-based) of t whose Eager rewrite sequence is not empty
EagerArgs(rs, t) == {i \in DOMAIN t.args : rewrite(rs, t.args[i], "Eager").terms # <<>>}

\* the rewrites at the leftmost-innermost redex of t, by the first rule
\* matching there, each put back in its place in t
RECURSIVE LeftmostInnermost(_, _)
LeftmostInnermost(rs, t) ==
  LET withRedex == {i \in DOMAIN t.args : HasRedex(rs, t.args[i])} IN
  IF withRedex # {}
    THEN LET i == CHOOSE i \in withRedex : \A j \in withRedex : i <= j
             inner == LeftmostInnermost(rs, t.args[i])
         IN [k \in DOMAIN inner |-> ReplaceArg(t, i - 1, inner[k])]
  ELSE IF Matching(rs, t) # {} THEN RuleRewrite(rs[FirstMatching(rs, t)], t)
  ELSE <<>>

\* C11: rewrite(term, Eager) yields, when some argument has a non-empty
\* Eager rewrite sequence, the term with the leftmost such argument replaced
\* by each of its Eager rewrites in order, and otherwise the RHS
\* instantiations of the first rule matching the whole term; the rewritten
\* site is the leftmost-innermost redex.
C11_EagerLeftmostInnermost ==
  strategy = "Eager" =>
    /\ EagerArgs(rules, term) # {} =>
         LET i == CHOOSE i \in EagerArgs(rules, term) : \A j \in EagerArgs(rules, term) : i <= j
             inner == rewrite(rules, term.args[i], "Eager").terms
         IN out = Yield([k \in DOMAIN inner |-> ReplaceArg(term, i - 1, inner[k])])
    /\ EagerArgs(rules, term) = {} =>
         out = Yield(IF Matching(rules, term) # {}
                       THEN RuleRewrite(rules[FirstMatching(rules, term)], term)
                       ELSE <<>>)
    /\ out = Yield(LeftmostInnermost(rules, term))

\* the head matches and the second argument, not the first, holds a redex
C11_Witness ==
  /\ strategy = "Eager"
  /\ Matching(rules, term) # {}
  /\ Len(term.args) = 2
  /\ ~HasRedex(rules, term.args[1]) /\ HasRedex(rules, term.args[2])
  /\ out.terms # <<>>

\* the rewrites at every redex position of t, positions in pre-order, by the
\* first rule matching at each
RECURSIVE PreOrder(_, _)
PreOrder(rs, t) ==
  LET head == IF Matching(rs, t) # {} THEN RuleRewrite(rs[FirstMatching(rs, t)], t) ELSE <<>>
      inArg(i) == LET sub == PreOrder(rs, t.args[i]) IN
                  [k \in DOMAIN sub |-> ReplaceArg(t, i - 1, sub[k])]
  IN head \o Flatten([i \in DOMAIN t.args |-> inArg(i)])

\* the rewrites of the arguments of t under All, argument by argument
AllInArgs(rs, t) ==
  LET inArg(i) == LET sub == rewrite(rs, t.args[i], "All").terms IN
                  [k \in DOMAIN sub |-> ReplaceArg(t, i - 1, sub[k])]
  IN Flatten([i \in DOMAIN t.args |-> inArg(i)])

\* C12: rewrite(term, All) yields the rewrites of the whole term at its head
\* first, then for each argument from left to right the term with that
\* argument replaced by each term of the argument's own All sequence; the
\* redex positions are visited in pre-order.
C12_AllPreOrder ==
  strategy = "All" =>
    LET rest == AllInArgs(rules, term)
        n == Len(out.terms) - Len(rest)
    IN /\ ~out.panic
       /\ n >= 0
       /\ SubSeq(out.terms, n + 1, Len(out.terms)) = rest
       /\ \A k \in 1..n : out.terms[k] \in Range(EveryMatch(rules, term, 1))
       /\ Matching(rules, term) # {} => n >= 1
       /\ out = Yield(PreOrder(rules, term))

\* the head and both arguments have been rewritten
C12_Witness ==
  /\ strategy = "All"
  /\ Matching(rules, term) # {}
  /\ Len(term.args) = 2
  /\ HasRedex(rules, term.args[1]) /\ HasRedex(rules, term.args[2])
  /\ Len(out.terms) >= 3

\* C13: every term yielded under Eager is yielded under All.
C13_EagerSubsetOfAll ==
  strategy = "Eager" =>
    Range(out.terms) \subseteq Range(rewrite(rules, term, "All").terms)

\* Eager has rewritten inside an argument of an argument
C13_Witness ==
  /\ strategy = "Eager"
  /\ out.terms # <<>>
  /\ \E i \in DOMAIN term.args : \E j \in DOMAIN term.args[i].args :
       HasRedex(rules, term.args[i].args[j])

(***************************************************************************)
(* Well-formedness.                                                        *)
(***************************************************************************)
\* every application has as many arguments as its operator's arity
RECURSIVE WellFormed(_)
WellFormed(t) ==
  t.var \/ (/\ Len(t.args) = OpArity(t.id)
            /\ \A i \in DOMAIN t.args : WellFormed(t.args[i]))

WellFormedRule(rule) ==
  WellFormed(rule.lhs) /\ \A i \in DOMAIN rule.rhs : WellFormed(rule.rhs[i])

\* C14: when the input term and both sides of every rule are well-formed,
\* every term yielded by rewrite, under each strategy, is well-formed.
C14_RewritePreservesWellFormed ==
  (/\ Rewritten
   /\ WellFormed(term)
   /\ \A k \in DOMAIN rules : WellFormedRule(rules[k]))
    => \A k \in DOMAIN out.terms : WellFormed(out.terms[k])

\* Normal has put a rewritten argument back into a binary application
C14_Witness ==
  /\ strategy = "Normal"
  /\ WellFormed(term)
  /\ \A k \in DOMAIN rules : WellFormedRule(rules[k])
  /\ Len(term.args) = 2
  /\ Matching(rules, term) = {}
  /\ out.terms # <<>>

(***************************************************************************)
(* The String strategy.                                                    *)
(***************************************************************************)
\* the terms rebuilt from the clauses of a flattened rule under one match;
\* a clause that cannot be rebuilt gives nothing
StringInstances(rhss, matches) ==
  Flatten([k \in DOMAIN rhss |->
    LET new_string == substitute_pattern(rhss[k], matches) IN
    IF ~new_string.some THEN <<>>
    ELSE LET new_term == convert_to_term(new_string.val) IN
         IF new_term.some THEN <<new_term.val>> ELSE <<>>])

\* what one rule contributes for the flattened input: for each accepted
\* split, in order, each clause instantiated; nothing when the rule cannot
\* be flattened
StringOfRule(rule, string) ==
  LET pattern == convert_rule_to_strings(rule) IN
  IF ~pattern.some THEN <<>>
  ELSE LET breaks == gen_breaks(pattern.val.lhs, Len(string)) IN
       Flatten([b \in DOMAIN breaks |->
         LET m == match_pattern(pattern.val.lhs, breaks[b], string) IN
         IF m.some THEN StringInstances(pattern.val.rhs, m.val) ELSE <<>>])

\* C15: under String, for an input that flattens to an atom string, the
\* sequence is the concatenation over the rules in TRS order of each rule's
\* instantiated clauses for each accepted split; a rule that does not match
\* or cannot be flattened contributes nothing and does not suppress the
\* rewrites of the other rules.
C15_StringEveryRule ==
  (strategy = "String" /\ convert_term_to_string(term).some) =>
    out = Yield(Flatten([k \in DOMAIN rules |->
                  StringOfRule(rules[k], convert_term_to_string(term).val)]))

\* every way to cut a string of length n into k contiguous segments from 0
\* to n, a segment possibly empty: the k + 1 break points
Splits(k, n) ==
  {b \in [1..(k + 1) -> 0..n] :
     /\ b[1] = 0
     /\ b[k + 1] = n
     /\ \A i \in 1..k : b[i] <= b[i + 1]}

\* an operator position holds exactly that atom, and the occurrences of a
\* variable hold identical segments
SplitAccepted(pattern, b, string) ==
  \A i \in DOMAIN pattern :
    /\ ~pattern[i].var => Segment(string, b, i) = <<pattern[i]>>
    /\ \A j \in DOMAIN pattern :
         (pattern[i].var /\ pattern[j] = pattern[i])
           => Segment(string, b, i) = Segment(string, b, j)

\* C16: string matching tries every split of the input into |pattern|
\* contiguous segments from 0 to |string|; an operator position matches
\* exactly one equal atom, and a variable position, first, interior or
\* last, may be bound to a segment of any length, zero included, repeated
\* occurrences binding identical segments.
C16_EverySplitTried ==
  op = "match_pattern" =>
    /\ {out.terms[k].breaks : k \in DOMAIN out.terms}
         = {b \in Splits(Len(arg.pattern), Len(arg.string)) :
              SplitAccepted(arg.pattern, b, arg.string)}
    /\ \A k \in DOMAIN out.terms : \A i \in DOMAIN arg.pattern :
         arg.pattern[i].var =>
           out.terms[k].matches.val[arg.pattern[i].id]
             = Segment(arg.string, out.terms[k].breaks, i)

(***************************************************************************)
(* push, insert, insert_clauses and the determinism flag.                  *)
(***************************************************************************)
\* the rules of T whose LHS is not alpha-equivalent to lhs, in order
Others(T, lhs) == SelectSeq(T.rules, LAMBDA r : ~Alpha(r.lhs, lhs).ok)

\* rule holds every clause of other, in the variables of rule
HoldsClauses(rule, other) ==
  /\ Alpha(other.lhs, rule.lhs).ok
  /\ \A i \in DOMAIN other.rhs : Contains(rule.rhs, Renamed(rule, other)[i])

\* C17: after a successful push(rule), index 0 holds a rule whose LHS is
\* alpha-equivalent to rule.lhs and which has every clause of rule, and the
\* other rules follow in the order they had, whether the LHS was new or the
\* rule was merged into an existing rule at any index.
C17_PushPutsRuleFirst ==
  (op = "push" /\ res = "Ok") =>
    /\ rules # <<>>
    /\ HoldsClauses(rules[1], arg.rule)
    /\ Tail(rules) = Others(pre, arg.rule.lhs)
    /\ is_deterministic = pre.det

\* a push has merged clauses into a rule that was not at index 0
C17_Witness ==
  /\ op = "push" /\ res = "Ok"
  /\ \E k \in 2..Len(pre.rules) :
       /\ Alpha(pre.rules[k].lhs, arg.rule.lhs).ok
       /\ rules[1] # pre.rules[k]

\* the rules of before with the k-th given the clauses of rule it lacks
MergedInPlace(before, after, k, rule) ==
  /\ Len(after) = Len(before)
  /\ \A j \in DOMAIN before : j # k => after[j] = before[j]
  /\ after[k].lhs = before[k].lhs
  /\ SubSeq(after[k].rhs, 1, Len(before[k].rhs)) = before[k].rhs
  /\ HoldsClauses(after[k], rule)
  /\ \A i \in DOMAIN after[k].rhs :
       Contains(before[k].rhs, after[k].rhs[i]) \/ Contains(Renamed(before[k], rule), after[k].rhs[i])

\* C18: insert(idx, rule) on a nondeterministic TRS holding a rule with an
\* alpha-equivalent LHS merges the clauses of rule into that rule in place and
\* returns Ok whatever idx is; in every other case it has the result and the
\* effect of insert_idx(idx, rule).
C18_InsertMergesOrInsertsIdx ==
  op = "insert" =>
    IF ~pre.det /\ HasAlphaLhs(pre, arg.rule.lhs)
      THEN /\ res = "Ok"
           /\ is_deterministic = pre.det
           /\ \E k \in DOMAIN pre.rules :
                /\ Alpha(pre.rules[k].lhs, arg.rule.lhs).ok
                /\ MergedInPlace(pre.rules, rules, k, arg.rule)
      ELSE Result(rules, is_deterministic, res) = insert_idx(pre, arg.idx, arg.rule)

\* an insert at an index out of range has merged new clauses into a rule
C18_Witness ==
  /\ op = "insert" /\ res = "Ok"
  /\ arg.idx > Len(pre.rules)
  /\ rules # pre.rules

\* C19: insert_clauses(rule) returns NondeterministicRule whenever the TRS is
\* deterministic, NotInTRS on a nondeterministic TRS without a rule of
\* alpha-equivalent LHS, and otherwise merges the clauses of rule into that one
\* rule; the number and order of the rules and every other rule stay as
\* they were in all three cases.
C19_InsertClauses ==
  op = "insert_clauses" =>
    /\ is_deterministic = pre.det
    /\ pre.det => (res = "NondeterministicRule" /\ Unchanged)
    /\ (~pre.det /\ ~HasAlphaLhs(pre, arg.rule.lhs)) => (res = "NotInTRS" /\ Unchanged)
    /\ (~pre.det /\ HasAlphaLhs(pre, arg.rule.lhs)) =>
         /\ res = "Ok"
         /\ \E k \in DOMAIN pre.rules :
              /\ Alpha(pre.rules[k].lhs, arg.rule.lhs).ok
              /\ MergedInPlace(pre.rules, rules, k, arg.rule)

\* a single-clause rule whose LHS is present was refused by a deterministic TRS
C19_Witness ==
  /\ op = "insert_clauses" /\ res = "NondeterministicRule"
  /\ RuleLen(arg.rule) = 1
  /\ HasAlphaLhs(pre, arg.rule.lhs)
  /\ Len(rules) >= 2

\* the rules, each cut down to its first clause
FirstClauses(rs) == [i \in DOMAIN rs |-> Rule(rs[i].lhs, SubSeq(rs[i].rhs, 1, 1))]

\* C20: make_deterministic keeps the first clause of every rule, the rule
\* order and every LHS, sets the flag and returns true iff the flag was
\* false; a second call right after returns false and changes nothing;
\* make_nondeterministic clears the flag only, the dropped clauses stay
\* dropped.
C20_MakeDeterministic ==
  /\ op = "make_deterministic" =>
       /\ is_deterministic
       /\ arg.ret = ~pre.det
       /\ ~pre.det => rules = FirstClauses(pre.rules)
       /\ pre.det => rules = pre.rules
       /\ make_deterministic(Here)
            = [rules |-> rules, det |-> TRUE, err |-> "Ok", ret |-> FALSE]
       /\ make_nondeterministic(Here)
            = [rules |-> rules, det |-> FALSE, err |-> "Ok", ret |-> TRUE]
  /\ op = "make_nondeterministic" =>
       /\ ~is_deterministic
       /\ arg.ret = pre.det
       /\ rules = pre.rules

\* make_deterministic has dropped the second clause of a rule
C20_Witness ==
  /\ op = "make_deterministic" /\ arg.ret
  /\ \E k \in DOMAIN pre.rules : RuleLen(pre.rules[k]) = 2 /\ RuleLen(rules[k]) = 1

(***************************************************************************)
(* remove_clauses, move_rule, new and the batch mutators.                  *)
(***************************************************************************)
\* the clauses of rule that are clauses of other, up to the renaming of LHSs
Matched(rule, other) ==
  IF Alpha(other.lhs, rule.lhs).ok
    THEN SelectSeq(rule.rhs, LAMBDA c : Contains(Renamed(rule, other), c))
    ELSE <<>>

Unmatched(rule, other) ==
  IF Alpha(other.lhs, rule.lhs).ok
    THEN SelectSeq(rule.rhs, LAMBDA c : ~Contains(Renamed(rule, other), c))
    ELSE rule.rhs

\* C21: remove_clauses(rule) takes the matching clauses out of the first rule
\* that has any and returns them as a rule, a rule left without clauses
\* leaving the list, so that no rule of the TRS ever has an empty RHS; when
\* no rule has a matching clause it returns NotInTRS and changes nothing.
C21_RemoveClauses ==
  /\ \A k \in DOMAIN rules : rules[k].rhs # <<>>
  /\ op = "remove_clauses" =>
       LET hits == {k \in DOMAIN pre.rules : Matched(pre.rules[k], arg.rule) # <<>>} IN
       IF hits = {} THEN res = "NotInTRS" /\ Unchanged
       ELSE LET k == CHOOSE k \in hits : \A j \in hits : k <= j
                kept == Unmatched(pre.rules[k], arg.rule)
            IN /\ res = "Ok"
               /\ is_deterministic = pre.det
               /\ arg.ret.rhs = Matched(pre.rules[k], arg.rule)
               /\ Alpha(arg.ret.lhs, arg.rule.lhs).ok
               /\ rules = IF kept = <<>>
                            THEN RemoveAt(pre.rules, k - 1)
                            ELSE [pre.rules EXCEPT ![k] = Rule(pre.rules[k].lhs, kept)]

\* remove_clauses has taken the only clause of a rule, and the rule with it
C21_Witness ==
  /\ op = "remove_clauses" /\ res = "Ok"
  /\ Len(rules) = Len(pre.rules) - 1
  /\ rules # <<>>

\* C22: for i and j both valid indices, in either mode, move_rule(i, j)
\* returns Ok, the rule that was at index i is at index j, and the other
\* rules keep their order and their clauses.
C22_MoveRuleValid ==
  (op = "move_rule" /\ arg.i < Len(pre.rules) /\ arg.j < Len(pre.rules)) =>
    /\ res = "Ok"
    /\ is_deterministic = pre.det
    /\ Len(rules) = Len(pre.rules)
    /\ rules[arg.j + 1] = pre.rules[arg.i + 1]
    /\ RemoveAt(rules, arg.j) = RemoveAt(pre.rules, arg.i)

\* the last of three rules of a deterministic TRS has been moved to the front
C22_Witness ==
  /\ op = "move_rule" /\ res = "Ok"
  /\ is_deterministic
  /\ arg.i = 2 /\ arg.j = 0
  /\ Len(rules) = 3

PairwiseDistinctLhs(rs) ==
  \A i, j \in DOMAIN rs : i # j => ~Alpha(rs[i].lhs, rs[j].lhs).ok

\* C23: TRS::new(rules) gives a nondeterministic TRS; when the LHSs of the
\* input are pairwise not alpha-equivalent it holds the input rules in input
\* order; an input rule whose LHS is alpha-equivalent to another's is not a
\* rule of its own.
C23_New ==
  op = "new" =>
    /\ ~is_deterministic
    /\ res = "Ok"
    /\ PairwiseDistinctLhs(arg.rules) => rules = arg.rules
    /\ PairwiseDistinctLhs(rules)
    /\ \A k \in DOMAIN rules : \E i \in DOMAIN arg.rules : Alpha(arg.rules[i].lhs, rules[k].lhs).ok
    /\ \A i \in DOMAIN arg.rules : \E k \in DOMAIN rules : HoldsClauses(rules[k], arg.rules[i])

\* new has been given two rules of different LHSs
C23_Witness ==
  /\ op = "new"
  /\ Len(arg.rules) = 2
  /\ PairwiseDistinctLhs(arg.rules)
  /\ Len(rules) = 2

\* C25: inserts_idx(idx, rules) and pushes(rules) are all-or-nothing: when
\* the call returns an error the TRS is as it was before the call.
C25_BatchAllOrNothing ==
  (op \in {"inserts_idx", "pushes"} /\ res # "Ok") => Unchanged

\* C27: move_rule(i, j) returns InvalidIndex whenever i or j is not a valid
\* index of the TRS, i = j included.
C27_MoveRuleInvalidIndex ==
  (op = "move_rule" /\ (arg.i >= Len(pre.rules) \/ arg.j >= Len(pre.rules)))
    => res = "InvalidIndex"

(***************************************************************************)
(* Normal against All.                                                     *)
(***************************************************************************)
\* C26: Normal yields at least one term whenever some subterm of the input is
\* matched by a rule LHS (also when the only redex is an argument to the right
\* of a variable argument): the Normal sequence is empty iff the All sequence
\* is empty.
C26_NormalEmptyIffAllEmpty ==
  strategy = "Normal" =>
    /\ HasRedex(rules, term) => out.terms # <<>>
    /\ out.terms = <<>> <=> rewrite(rules, term, "All").terms = <<>>

(***************************************************************************)
(* Strings and terms.                                                      *)
(***************************************************************************)
\* the first atom is an operator and the other atoms are nullary operators
OperatorThenNullary(s) ==
  /\ s # <<>>
  /\ ~s[1].var
  /\ \A i \in 2..Len(s) : ~s[i].var /\ OpArity(s[i].id) = 0

\* the left-associative tree over the atoms of s, built with bin_op
RECURSIVE LeftTree(_, _)
LeftTree(bin_op, s) ==
  IF Len(s) = 1 THEN App(s[1].id, <<>>)
  ELSE App(bin_op, <<LeftTree(bin_op, SubSeq(s, 1, Len(s) - 1)), App(s[Len(s)].id, <<>>)>>)

\* C28: with a binary operator named "." in the signature, for every non-empty
\* string whose first atom is an operator and whose other atoms are nullary
\* operators, convert_to_term gives the left-associative "."-tree over the
\* atoms, built with the first such operator of the signature, and
\* convert_term_to_string of that tree gives the string back.
C28_ConvertRoundTrip ==
  (op = "convert_to_term" /\ DotOps # {} /\ OperatorThenNullary(arg.string)) =>
    /\ out.term = Just(LeftTree(CHOOSE o \in DotOps : \A p \in DotOps : o <= p, arg.string))
    /\ out.string = Just(arg.string)

\* a string of three nullary operators was made a term and flattened back
C28_Witness ==
  /\ op = "convert_to_term"
  /\ OperatorThenNullary(arg.string)
  /\ Len(arg.string) = 3
  /\ arg.string[1] # arg.string[2]
  /\ out.term.some /\ out.string = Just(arg.string)

(***************************************************************************)
(* The sum and the recurrence of PString.                                  *)
(***************************************************************************)
\* the insertion counts the sum is to run over, in the integers
Feasible(m, n, t_max, d_max) ==
  {t \in 0..(m + n + t_max + d_max) :
     /\ t >= n - m /\ t <= t_max /\ t <= d_max + n - m /\ t <= n}

\* C29: for strings of lengths m and n, compute(t_max, d_max) sums exactly
\* one term for each t with max(0, n-m) <= t <= min(t_max, d_max + n - m) and
\* t <= n, with d = m + t - n and s = n - t; so every term has at most t_max
\* insertions and at most d_max deletions, and nothing is summed when
\* m - n > d_max.
C29_ComputeSumsFeasible ==
  op = "compute" =>
    LET m == Len(arg.x)
        n == Len(arg.y)
        F == Feasible(m, n, arg.t_max, arg.d_max)
    IN /\ Range(out.terms) = {<<t, m + t - n, n - t>> : t \in F}
       /\ Len(out.terms) = Cardinality(F)
       /\ \A i \in DOMAIN out.terms :
            out.terms[i][1] <= arg.t_max /\ out.terms[i][2] <= arg.d_max
       /\ m - n > arg.d_max => out.terms = <<>>

\* C30: every key (t, d, s) query reaches from compute has s + d <= m and
\* s + t <= n, so every element of x and y read is in range; the recursion
\* ends at (0, 0, 0) and the fallback branch is never taken.
C30_QueryInBounds ==
  op = "compute" =>
    /\ \A key \in out.q.cache :
         key[3] + key[2] <= Len(arg.x) /\ key[3] + key[1] <= Len(arg.y)
    /\ ~out.q.oob
    /\ \A r \in out.q.reads : r.i < Len(arg.x) /\ r.j < Len(arg.y)
    /\ out.terms # <<>> => <<0, 0, 0>> \in out.q.cache
    /\ \A i \in DOMAIN out.terms : out.terms[i] \in out.q.cache
    /\ ~out.q.fallback

\* a sum over two insertion counts whose recurrence went through a key with
\* insertions, deletions and substitutions and read the last elements of x
\* and y
C30_Witness ==
  /\ op = "compute"
  /\ Len(out.terms) >= 2
  /\ \E key \in out.q.cache : key[1] > 0 /\ key[2] > 0 /\ key[3] > 0
  /\ \E r \in out.q.reads : r.i = Len(arg.x) - 1 /\ r.j = Len(arg.y) - 1

(***************************************************************************)
(* The signature under concurrent readers and writers.                     *)
(***************************************************************************)
\* what a read through h returns, from the values h was created with
Created(h, call) ==
  IF call = "arity" THEN h.arity
  ELSE IF call = "name" THEN h.name
  ELSE IF h.kind = "op"
    THEN IF h.name.some THEN h.name.val ELSE "op" \o ToString(h.id)
    ELSE IF h.name.some THEN h.name.val \o "_" ELSE "var" \o ToString(h.id) \o "_"

\* the record of h is in the registry and is the one h was created with
Registered(h) ==
  IF h.kind = "op"
    THEN /\ h.id < Len(sig.operators)
         /\ sig.operators[h.id + 1] = [arity |-> h.arity, name |-> h.name]
    ELSE /\ h.id < Len(sig.variables)
         /\ sig.variables[h.id + 1] = [name |-> h.name]

\* C24: under every interleaving of writers (new_op, new_var) and readers
\* (arity, name, display on handles already created) of one signature,
\* a read returns what the handle was created with and never indexes outside
\* the registry; the records of the handles stay in place.
C24_ReadsSeeCreation ==
  /\ \A h \in sig.handles : Registered(h)
  /\ \A t \in Threads :
       sig.thread[t].pc = "read_done" =>
         /\ ~sig.thread[t].result.panic
         /\ sig.thread[t].result.val = Created(sig.thread[t].h, sig.thread[t].call)

\* a thread has read the arity of the first operator after a second operator
\* was added to the registry
C24_Witness ==
  \E t \in Threads :
    /\ sig.thread[t].pc = "read_done"
    /\ sig.thread[t].call = "arity"
    /\ sig.thread[t].h.id = 0
    /\ Len(sig.operators) = 2

====
